---- MODULE Spec2Model ----
(***************************************************************************)
(* A model of storm, a reflective object-relational mapping layer          *)
(* (storm.go, query_builder.go).                                           *)
(*                                                                         *)
(* Strings that the code inspects (struct tags, column names) are          *)
(* sequences of lexemes: "pk", "column", ":", "," and names.  A name is    *)
(* one lexeme and holds none of the substrings "pk", "column", ":".        *)
(* strings.Contains(tag, w) is then membership of the lexeme w and         *)
(* strings.Split(tag, ":") cuts the sequence at every ":" lexeme.          *)
(* The payload v of a value is a number: an integer is itself, a float is  *)
(* counted in halves (v = 3 is 1.5), a string or byte sequence is the      *)
(* v-th text (0 the empty one), a boolean is 0 or 1.                       *)
(* Strings the code only copies (field names, table names, WHERE clauses)  *)
(* are TLA+ strings.  Go values are tagged records [k |-> kind, v |-> n].  *)
(***************************************************************************)
EXTENDS Integers, Sequences, FiniteSets, TLC

VARIABLES
    model,       \* the record handed to Insert/Update/Delete/From: [name, fields]
    op,          \* the call whose results the caller holds, "none" when it holds none
    execLog,     \* the statements the call passed to db.Exec, oldest first
    err,         \* the value the call returned ("nil" for no error)
    dstField,    \* setFieldValue: the destination field, [k |-> kind, v |-> payload]
    fieldBefore, \* the field as it was when setFieldValue was called
    value,       \* setFieldValue: the value the driver scanned
    q,           \* the Query: [table, where, whereArgument, limit]
    dbRows,      \* the number of rows of the table, with ids 1..dbRows
    queryLog,    \* the statements the call passed to db.Query and db.QueryRow
    rowsOpen,    \* the result sets the call opened and has not closed
    dest,        \* First's destination struct: the values of its fields
    destBefore,  \* First's destination as the caller handed it in
    destSlice,   \* the destination slice of Select and Paginate
    total,       \* Paginate's *total
    totalPages,  \* Paginate's *totalPages
    pageArgs,    \* Paginate's arguments: [page, pageSize]
    ht,          \* the column each field had in the map ht of the terminal call
    builderCalls \* history: what the caller last passed to Where and to Limit
                 \* on the Query: [condition, args, n]

crudVars == <<execLog>>
coerceVars == <<dstField, fieldBefore, value>>
outVars == <<dest, destBefore, destSlice, total, totalPages, pageArgs, ht>>
queryVars == <<q, builderCalls, dbRows, queryLog, rowsOpen, outVars>>

vars == <<model, op, execLog, err, dstField, fieldBefore, value, q, dbRows, queryLog,
          rowsOpen, dest, destBefore, destSlice, total, totalPages, pageArgs, ht,
          builderCalls>>

-----------------------------------------------------------------------------
(* Bounds of the model *)

MaxFields == 3
MaxVal == 1
MaxSrc == 3
MaxRows == 7
MaxArg == 1
MaxLimit == 2
MaxPage == 3
MaxPageSize == 3

-----------------------------------------------------------------------------
(* Go values *)

Nil == [k |-> "nil", v |-> 0]
IntV(n) == [k |-> "int", v |-> n]

\* reflect.Value.IsZero for the integer fields of the records
IsZero(val) == val.v = 0

-----------------------------------------------------------------------------
(* strings *)

ToLower(s) ==
    CASE s = "ID" -> "id"
      [] s = "Name" -> "name"
      [] s = "Email" -> "email"
      [] s = "Age" -> "age"
      [] s = "City" -> "city"
      [] s = "Users" -> "users"
      [] OTHER -> s

Contains(tag, w) == \E i \in 1..Len(tag) : tag[i] = w

RECURSIVE SplitFrom(_, _, _, _)
SplitFrom(tag, sep, i, cur) ==
    IF i > Len(tag) THEN <<cur>>
    ELSE IF tag[i] = sep THEN <<cur>> \o SplitFrom(tag, sep, i + 1, <<>>)
    ELSE SplitFrom(tag, sep, i + 1, Append(cur, tag[i]))

\* strings.Split(tag, sep): the parts between the separators, never empty
Split(tag, sep) == SplitFrom(tag, sep, 1, <<>>)

-----------------------------------------------------------------------------
(* Record types: the structs a caller may declare *)

FieldNames == <<"ID", "Name", "Email", "Age", "City">>

ColumnNameOf(name) ==
    CASE name = "ID" -> "user_id"
      [] name = "Name" -> "name_user"
      [] name = "Email" -> "email_user"
      [] name = "Age" -> "age_user"
      [] OTHER -> "city_user"

\* the shapes of the storm tags built from the recognized directives
TagShapes == {"", "pk", "column", "pk,column", "column,pk"}

Tag(shape, name) ==
    CASE shape = "pk" -> <<"pk">>
      [] shape = "column" -> <<"column", ":", ColumnNameOf(name)>>
      [] shape = "pk,column" -> <<"pk", ",", "column", ":", ColumnNameOf(name)>>
      [] shape = "column,pk" -> <<"column", ":", ColumnNameOf(name), ",", "pk">>
      [] OTHER -> <<>>

TagsOf(name) == { Tag(shape, name) : shape \in TagShapes }

\* a record of n integer fields with the given tags and values
Record(n, shapes, vals) ==
    [name |-> "User",
     fields |-> [i \in 1..n |->
                   [name |-> FieldNames[i], tag |-> Tag(shapes[i], FieldNames[i]),
                    val |-> IntV(vals[i])]]]

-----------------------------------------------------------------------------
(* Tag resolution as Insert and Update do it *)

is_primary(tag) == Contains(tag, "pk")
is_column(tag) == Contains(tag, "column")

WriteColumn(field) ==
    IF is_column(field.tag)
    THEN LET parts == Split(field.tag, ":")
         IN  IF Len(parts) >= 2 THEN parts[2] ELSE <<"PANIC">>
    ELSE <<ToLower(field.name)>>

TableName(m) == ToLower(m.name \o "s")

-----------------------------------------------------------------------------
(* Storm.Insert *)

\* Insert's loop without the skip of the primary-key field
RECURSIVE InsertLoopKeepsKey(_, _, _)
InsertLoopKeepsKey(m, i, acc) ==
    IF i >= Len(m.fields) THEN acc
    ELSE LET field == m.fields[i + 1]
         IN  InsertLoopKeepsKey(m, i + 1,
                [columns |-> Append(acc.columns, WriteColumn(field)),
                 placeholders |-> Append(acc.placeholders, i),
                 values |-> Append(acc.values, field.val)])

\* the loop over the fields; i is the Go index, 0-based
RECURSIVE InsertLoop(_, _, _)
InsertLoop(m, i, acc) ==
    IF i >= Len(m.fields) THEN acc
    ELSE LET field == m.fields[i + 1]
         IN  IF is_primary(field.tag)
             THEN InsertLoop(m, i + 1, acc)
             ELSE InsertLoop(m, i + 1,
                    [columns |-> Append(acc.columns, WriteColumn(field)),
                     placeholders |-> Append(acc.placeholders, i),
                     values |-> Append(acc.values, field.val)])

InsertStatement(m) ==
    LET r == InsertLoop(m, 0, [columns |-> <<>>, placeholders |-> <<>>, values |-> <<>>])
    IN  [kind |-> "INSERT", table |-> TableName(m), columns |-> r.columns,
         placeholders |-> r.placeholders, args |-> r.values]

\* what db.Exec may answer
ExecResults == {"nil", "driver error"}

Insert ==
    /\ op = "none"
    /\ \E res \in ExecResults :
        /\ execLog' = Append(execLog, InsertStatement(model))
        /\ err' = res
    /\ op' = "Insert"
    /\ UNCHANGED <<model, coerceVars, queryVars>>

-----------------------------------------------------------------------------
(* Storm.Update *)

\* Update's loop without the test for the zero value
RECURSIVE UpdateLoopKeepsZero(_, _, _)
UpdateLoopKeepsZero(m, i, acc) ==
    IF i >= Len(m.fields) THEN acc
    ELSE LET field == m.fields[i + 1]
         IN  IF is_primary(field.tag)
             THEN UpdateLoopKeepsZero(m, i + 1,
                    [acc EXCEPT !.pkField = field.name, !.pkValue = field.val])
             ELSE UpdateLoopKeepsZero(m, i + 1,
                    [acc EXCEPT
                       !.setClause = Append(@, [col |-> WriteColumn(field), n |-> i]),
                       !.vals = Append(@, field.val),
                       !.paramCount = @ + 1])

RECURSIVE UpdateLoop(_, _, _)
UpdateLoop(m, i, acc) ==
    IF i >= Len(m.fields) THEN acc
    ELSE LET field == m.fields[i + 1]
         IN  IF is_primary(field.tag)
             THEN UpdateLoop(m, i + 1,
                    [acc EXCEPT !.pkField = field.name, !.pkValue = field.val])
             ELSE IF ~IsZero(field.val)
             THEN UpdateLoop(m, i + 1,
                    [acc EXCEPT
                       !.setClause = Append(@, [col |-> WriteColumn(field), n |-> i]),
                       !.vals = Append(@, field.val),
                       !.paramCount = @ + 1])
             ELSE UpdateLoop(m, i + 1, acc)

UpdateScan(m) ==
    UpdateLoop(m, 0, [setClause |-> <<>>, vals |-> <<>>, pkField |-> "",
                      pkValue |-> Nil, paramCount |-> 1])

UpdateStatement(m) ==
    LET r == UpdateScan(m)
    IN  [kind |-> "UPDATE", table |-> TableName(m), set |-> r.setClause,
         pkField |-> r.pkField, pkParam |-> r.paramCount,
         args |-> Append(r.vals, r.pkValue)]

NoPrimaryKey == "no primary key is found for update"

\* Update without the test for a missing primary key
UpdateUnchecked ==
    /\ op = "none"
    /\ \E res \in ExecResults :
        /\ execLog' = Append(execLog, UpdateStatement(model))
        /\ err' = res
    /\ op' = "Update"
    /\ UNCHANGED <<model, coerceVars, queryVars>>

Update ==
    /\ op = "none"
    /\ IF UpdateScan(model).pkField = ""
       THEN /\ err' = NoPrimaryKey
            /\ UNCHANGED execLog
       ELSE \E res \in ExecResults :
            /\ execLog' = Append(execLog, UpdateStatement(model))
            /\ err' = res
    /\ op' = "Update"
    /\ UNCHANGED <<model, coerceVars, queryVars>>

-----------------------------------------------------------------------------
(* Storm.Delete *)

RECURSIVE DeleteLoop(_, _, _)
DeleteLoop(m, i, acc) ==
    IF i >= Len(m.fields) THEN acc
    ELSE LET field == m.fields[i + 1]
         IN  IF is_primary(field.tag)
             THEN DeleteLoop(m, i + 1,
                    [pkField |-> field.name, pkValue |-> field.val,
                     paramCount |-> acc.paramCount + 1])
             ELSE DeleteLoop(m, i + 1, acc)

DeleteStatement(m) ==
    LET r == DeleteLoop(m, 0, [pkField |-> "", pkValue |-> Nil, paramCount |-> 0])
    IN  [kind |-> "DELETE", table |-> TableName(m), pkField |-> r.pkField,
         pkParam |-> r.paramCount, args |-> <<r.pkValue>>]

Delete ==
    /\ op = "none"
    /\ \E res \in ExecResults :
        /\ execLog' = Append(execLog, DeleteStatement(model))
        /\ err' = res
    /\ op' = "Delete"
    /\ UNCHANGED <<model, coerceVars, queryVars>>

-----------------------------------------------------------------------------
(* setFieldValue: the type coercion of a scanned value into a struct field *)

IntKinds == {"int", "int8", "int16", "int32", "int64"}
UintKinds == {"uint", "uint8", "uint16", "uint32", "uint64"}
FloatKinds == {"float32", "float64"}

\* the kinds of the destination fields; "bytes" ([]byte) and "time"
\* (time.Time) are kinds setFieldValue has no case for
TargetKinds == IntKinds \cup UintKinds \cup FloatKinds \cup {"string", "bool", "bytes", "time"}

\* the dynamic types of the values a driver hands to Scan
SourceKinds ==
    {"nil", "int64", "int32", "int", "float64", "float32", "string", "bytes", "bool", "time"}

\* val.Type().AssignableTo(fieldType), for these unnamed non-interface types
AssignableTo(sourceKind, targetKind) == sourceKind = targetKind

CannotConvert == "cannot convert"
Unsupported == "unsupported field type"

\* setFieldValue that stores the zero value for a NULL
setFieldValueNilZeroes(f, val) ==
    IF val.k = "nil" THEN [field |-> [k |-> f.k, v |-> 0], err |-> "nil"]
    ELSE IF val.k = f.k \/ (f.k \in IntKinds /\ val.k = "int64")
              \/ (f.k = "string" /\ val.k \in {"string", "bytes"})
    THEN [field |-> [k |-> f.k, v |-> val.v], err |-> "nil"]
    ELSE [field |-> f, err |-> "cannot convert"]

setFieldValue(f, val) ==
    IF val.k = "nil" THEN [field |-> f, err |-> "nil"]
    ELSE IF AssignableTo(val.k, f.k)
    THEN [field |-> [k |-> f.k, v |-> val.v], err |-> "nil"]
    ELSE CASE f.k \in IntKinds ->
                CASE val.k = "int64" -> [field |-> [k |-> f.k, v |-> val.v], err |-> "nil"]
                  [] val.k = "int32" -> [field |-> [k |-> f.k, v |-> val.v], err |-> "nil"]
                  [] val.k = "int" -> [field |-> [k |-> f.k, v |-> val.v], err |-> "nil"]
                  [] val.k = "float64" ->
                        [field |-> [k |-> f.k, v |-> val.v \div 2], err |-> "nil"]
                  [] OTHER -> [field |-> f, err |-> CannotConvert]
           [] f.k \in UintKinds ->
                CASE val.k = "int64" -> [field |-> [k |-> f.k, v |-> val.v], err |-> "nil"]
                  [] val.k = "int32" -> [field |-> [k |-> f.k, v |-> val.v], err |-> "nil"]
                  [] val.k = "int" -> [field |-> [k |-> f.k, v |-> val.v], err |-> "nil"]
                  [] val.k = "float64" ->
                        [field |-> [k |-> f.k, v |-> val.v \div 2], err |-> "nil"]
                  [] OTHER -> [field |-> f, err |-> CannotConvert]
           [] f.k \in FloatKinds ->
                CASE val.k = "float64" -> [field |-> [k |-> f.k, v |-> val.v], err |-> "nil"]
                  [] val.k = "int64" -> [field |-> [k |-> f.k, v |-> 2 * val.v], err |-> "nil"]
                  [] val.k = "int" -> [field |-> [k |-> f.k, v |-> 2 * val.v], err |-> "nil"]
                  [] OTHER -> [field |-> f, err |-> CannotConvert]
           [] f.k = "string" ->
                CASE val.k = "string" -> [field |-> [k |-> f.k, v |-> val.v], err |-> "nil"]
                  [] val.k = "bytes" -> [field |-> [k |-> f.k, v |-> val.v], err |-> "nil"]
                  [] OTHER -> [field |-> f, err |-> CannotConvert]
           [] f.k = "bool" ->
                CASE val.k = "bool" -> [field |-> [k |-> f.k, v |-> val.v], err |-> "nil"]
                  [] val.k = "int64" ->
                        [field |-> [k |-> f.k, v |-> IF val.v # 0 THEN 1 ELSE 0], err |-> "nil"]
                  [] OTHER -> [field |-> f, err |-> CannotConvert]
           [] OTHER -> [field |-> f, err |-> Unsupported]

\* the payloads a value of a kind may carry
Payloads(kind) ==
    CASE kind = "nil" -> {0}
      [] kind = "bool" -> {0, 1}
      [] OTHER -> 0..MaxSrc

Fields == { [k |-> kind, v |-> n] : kind \in TargetKinds, n \in 0..MaxSrc }
Values == UNION { { [k |-> kind, v |-> n] : n \in Payloads(kind) } : kind \in SourceKinds }

\* one call of setFieldValue(dstField, value), which sets the field in place
SetFieldValue ==
    /\ op = "none"
    /\ dstField' = setFieldValue(dstField, value).field
    /\ err' = setFieldValue(dstField, value).err
    /\ op' = "setFieldValue"
    /\ UNCHANGED <<model, execLog, fieldBefore, value, queryVars>>

-----------------------------------------------------------------------------
(* What the design says of a record type, read off the tag's directives *)

Directives(tag) == IF tag = <<>> THEN <<>> ELSE Split(tag, ",")

HasPkDirective(tag) ==
    \E i \in 1..Len(Directives(tag)) : Directives(tag)[i] = <<"pk">>

IsColumnDirective(d) == Len(d) = 3 /\ d[1] = "column" /\ d[2] = ":"

HasColumnDirective(tag) ==
    \E i \in 1..Len(Directives(tag)) : IsColumnDirective(Directives(tag)[i])

\* <name> of the column directive, the lower-cased field name without one
DesignColumn(field) ==
    IF HasColumnDirective(field.tag)
    THEN LET i == CHOOSE j \in 1..Len(Directives(field.tag)) :
                     IsColumnDirective(Directives(field.tag)[j])
         IN  <<Directives(field.tag)[i][3]>>
    ELSE <<ToLower(field.name)>>

IsKey(f) == HasPkDirective(f.tag)
IsNonKey(f) == ~HasPkDirective(f.tag)
IsSet(f) == ~HasPkDirective(f.tag) /\ f.val # IntV(0)

KeyFields(m) == SelectSeq(m.fields, IsKey)
NonKeyFields(m) == SelectSeq(m.fields, IsNonKey)
SetFields(m) == SelectSeq(m.fields, IsSet)

Distinct(seq) == \A i, j \in 1..Len(seq) : i # j => seq[i] # seq[j]

-----------------------------------------------------------------------------
(* The database behind db.Query and db.QueryRow *)

\* the columns of the table of a record type: one per field, named as the
\* design resolves the field's tag
Schema(m) == [i \in 1..Len(m.fields) |-> DesignColumn(m.fields[i])]

HasColumn(m, col) == \E i \in 1..Len(m.fields) : Schema(m)[i] = col

\* the dynamic types the driver may give the values of the text columns
DriverKinds == {"bytes", "time"}

\* the value the driver scans for column col of the row with id r: an int64
\* for a column of an integer field; for the others a value of the driver's
\* kind, and NULL in the last column of the rows with an even id
RawValue(m, col, r, driver) ==
    LET i == CHOOSE j \in 1..Len(m.fields) : Schema(m)[j] = col
    IN  IF m.fields[i].val.k = "int" THEN [k |-> "int64", v |-> r]
        ELSE IF i = Len(m.fields) /\ r % 2 = 0 THEN Nil
        ELSE [k |-> driver, v |-> r]

WhereClauses == {"id = $1", "id > $1"}

Matches(r, where, args) ==
    CASE where = "" -> TRUE
      [] where = "id = $1" -> r = args[1].v
      [] where = "id > $1" -> r > args[1].v
      [] OTHER -> FALSE

\* the ids from r up to n of the rows a WHERE clause keeps, ascending
RECURSIVE MatchingFrom(_, _, _, _)
MatchingFrom(r, n, where, args) ==
    IF r > n THEN <<>>
    ELSE IF Matches(r, where, args)
         THEN <<r>> \o MatchingFrom(r + 1, n, where, args)
         ELSE MatchingFrom(r + 1, n, where, args)

\* rows.Columns(): the columns asked for, all the table's for "*"
ResultColumns(m, stmt) == IF stmt.cols = <<>> THEN Schema(m) ELSE stmt.cols

\* the database rejects a statement that names a column the table lacks
DbRejects(m, stmt) ==
    \/ (stmt.where # "" \/ stmt.order = "id") /\ ~HasColumn(m, <<"id">>)
    \/ \E i \in 1..Len(stmt.cols) : ~HasColumn(m, stmt.cols[i])

\* the ids of the rows a SELECT returns: the matching rows in id order, past
\* OFFSET, at most LIMIT of them (a limit of 0 stands for no LIMIT clause)
ResultIds(n, stmt) ==
    LET all == MatchingFrom(1, n, stmt.where, IF stmt.where = "" THEN <<>> ELSE stmt.args)
        rest == SubSeq(all, stmt.offset + 1, Len(all))
    IN  IF stmt.limit > 0 /\ Len(rest) > stmt.limit THEN SubSeq(rest, 1, stmt.limit)
        ELSE rest

\* how the calls on the database may end
DbOutcomes == {"ok", "query error", "scan error"}

NoPage == [page |-> 0, pageSize |-> 0]

\* the destinations and outputs of a call the caller has not made
NoResults ==
    /\ dest' = <<>>
    /\ destBefore' = <<>>
    /\ destSlice' = <<>>
    /\ total' = 0
    /\ totalPages' = 0
    /\ pageArgs' = NoPage
    /\ ht' = <<>>

DriverError == "driver error"

-----------------------------------------------------------------------------
(* The Query builder: From, Where, Limit *)

\* the caller has called neither Where nor Limit on the Query
NoCalls == [condition |-> "", args |-> <<>>, n |-> 0]

\* the caller holds no results of a terminal call
Idle == op \notin {"First", "Select", "Paginate"}

From ==
    /\ Idle
    /\ q' = [table |-> TableName(model), where |-> "", whereArgument |-> <<>>, limit |-> 0]
    /\ builderCalls' = NoCalls
    /\ UNCHANGED <<model, op, err, crudVars, coerceVars, dbRows, queryLog, rowsOpen, outVars>>

\* a Where that leaves the condition of an earlier Where in place
WhereKeepsEarlier ==
    /\ Idle
    /\ q.table # ""
    /\ \E condition \in WhereClauses \cup {""}, a \in 1..MaxArg :
        /\ q' = [q EXCEPT !.where = IF q.where = "" THEN condition ELSE q.where,
                          !.whereArgument = <<IntV(a)>>]
        /\ builderCalls' = [builderCalls EXCEPT !.condition = condition,
                                                !.args = <<IntV(a)>>]
    /\ UNCHANGED <<model, op, err, crudVars, coerceVars, dbRows, queryLog, rowsOpen, outVars>>

Where ==
    /\ Idle
    /\ q.table # ""
    /\ \E condition \in WhereClauses \cup {""}, a \in 1..MaxArg :
        /\ q' = [q EXCEPT !.where = condition, !.whereArgument = <<IntV(a)>>]
        /\ builderCalls' = [builderCalls EXCEPT !.condition = condition,
                                                !.args = <<IntV(a)>>]
    /\ UNCHANGED <<model, op, err, crudVars, coerceVars, dbRows, queryLog, rowsOpen, outVars>>

Limit ==
    /\ Idle
    /\ q.table # ""
    /\ \E n \in 0..MaxLimit :
        /\ q' = [q EXCEPT !.limit = n]
        /\ builderCalls' = [builderCalls EXCEPT !.n = n]
    /\ UNCHANGED <<model, op, err, crudVars, coerceVars, dbRows, queryLog, rowsOpen, outVars>>

-----------------------------------------------------------------------------
(* The row mapper *)

\* the column First maps a field to
FirstColumn(f) ==
    LET stormTagSplit == Split(f.tag, ":")
    IN  IF Len(stormTagSplit) = 2 THEN stormTagSplit[2] ELSE <<ToLower(f.name)>>

\* the column Select maps a field to
SelectColumn(f) ==
    LET parts == Split(f.tag, ":")
    IN  IF Len(parts) = 2 /\ parts[1] = <<"column">> THEN parts[2]
        ELSE <<ToLower(f.name)>>

\* the column Paginate maps a field to
PaginateColumn(f) ==
    LET parts == Split(f.tag, ":")
    IN  IF Len(parts) = 2 /\ parts[1] = <<"column">> THEN parts[2]
        ELSE <<ToLower(f.name)>>

\* ht[col] of a terminal operation: the index of the field the map built
\* from the fields' columns (fieldCols) sends col to, 0 when col is no key;
\* of two fields with one column the later one stays in the map
Ht(fieldCols, col) ==
    IF \E i \in 1..Len(fieldCols) : fieldCols[i] = col
    THEN CHOOSE i \in 1..Len(fieldCols) :
            /\ fieldCols[i] = col
            /\ \A j \in 1..Len(fieldCols) : fieldCols[j] = col => j <= i
    ELSE 0

\* the loop over the reported columns that sets the fields of one struct;
\* it stops at the first field setFieldValue refuses
RECURSIVE Populate(_, _, _, _, _)
Populate(struct, fieldCols, cols, vals, i) ==
    IF i > Len(cols) THEN [struct |-> struct, err |-> "nil"]
    ELSE LET idx == Ht(fieldCols, cols[i])
         IN  IF idx = 0 THEN Populate(struct, fieldCols, cols, vals, i + 1)
             ELSE LET r == setFieldValue(struct[idx], vals[i])
                  IN  IF r.err # "nil" THEN [struct |-> struct, err |-> r.err]
                      ELSE Populate([struct EXCEPT ![idx] = r.field],
                                    fieldCols, cols, vals, i + 1)

\* reflect.New(tipe).Elem(): every field at its zero value
ZeroStruct(m) == [i \in 1..Len(m.fields) |-> [k |-> m.fields[i].val.k, v |-> 0]]

\* the values Scan stores for the row with id r
ScanRow(m, cols, r, driver) == [i \in 1..Len(cols) |-> RawValue(m, cols[i], r, driver)]

SettingField == "error setting field"

\* the loop over rows.Next() of Select and Paginate from the k-th row on:
\* a Scan that fails, or a field that cannot be set, ends it with the
\* structs appended so far
\* (built: the map ht was built, which takes a row that Scan stored)
RECURSIVE MapRows(_, _, _, _, _, _, _, _)
MapRows(m, fieldCols, cols, ids, k, driver, failAt, slice) ==
    IF k > Len(ids) THEN [slice |-> slice, err |-> "nil", built |-> k > 1]
    ELSE IF k = failAt THEN [slice |-> slice, err |-> DriverError, built |-> k > 1]
    ELSE LET r == Populate(ZeroStruct(m), fieldCols, cols,
                           ScanRow(m, cols, ids[k], driver), 1)
         IN  IF r.err # "nil" THEN [slice |-> slice, err |-> SettingField, built |-> TRUE]
             ELSE MapRows(m, fieldCols, cols, ids, k + 1, driver, failAt,
                          Append(slice, r.struct))

-----------------------------------------------------------------------------
(* Query.First *)

\* the column lists a caller asks for: none, or the table's first two columns
QueryCols(m) == { <<>>, <<Schema(m)[1], Schema(m)[2]>> }

FirstStatement(queryCol) ==
    [kind |-> "SELECT", cols |-> queryCol, table |-> q.table, where |-> q.where,
     args |-> IF q.where # "" THEN q.whereArgument ELSE <<>>,
     limit |-> 1, order |-> "", offset |-> 0]

\* the destinations a caller hands to First: a fresh struct, or one whose
\* fields already hold values
Destinations(m) ==
    { ZeroStruct(m), [i \in 1..Len(m.fields) |-> [k |-> m.fields[i].val.k, v |-> 1]] }

First ==
    /\ Idle
    /\ q.table # ""
    /\ \E queryCol \in QueryCols(model), d \in Destinations(model),
          driver \in DriverKinds, outcome \in DbOutcomes :
        LET stmt == FirstStatement(queryCol)
            ids == ResultIds(dbRows, stmt)
            cols == ResultColumns(model, stmt)
            \* vals keeps what the last Scan stored, nil where none ran
            vals == IF ids = <<>> THEN [i \in 1..Len(cols) |-> Nil]
                    ELSE ScanRow(model, cols, ids[Len(ids)], driver)
            fieldCols == [i \in 1..Len(model.fields) |-> FirstColumn(model.fields[i])]
            r == Populate(d, fieldCols, cols, vals, 1)
        IN  /\ queryLog' = <<stmt>>
            /\ destBefore' = d
            /\ IF outcome = "query error" \/ DbRejects(model, stmt)
               THEN /\ err' = DriverError
                    /\ rowsOpen' = 0
                    /\ dest' = d
                    /\ ht' = <<>>
               ELSE IF outcome = "scan error" /\ ids # <<>>
               THEN \* the return inside the loop leaves rows open
                    /\ err' = DriverError
                    /\ rowsOpen' = 1
                    /\ dest' = d
                    /\ ht' = <<>>
               ELSE \* rows.Next() closed rows when it returned false
                    /\ err' = r.err
                    /\ rowsOpen' = 0
                    /\ dest' = r.struct
                    /\ ht' = fieldCols
    /\ op' = "First"
    /\ UNCHANGED <<model, crudVars, coerceVars, q, builderCalls, dbRows, destSlice, total,
                   totalPages, pageArgs>>

-----------------------------------------------------------------------------
(* Query.Select *)

SelectStatement(queryCol) ==
    [kind |-> "SELECT", cols |-> queryCol, table |-> q.table, where |-> q.where,
     args |-> IF q.where # "" THEN q.whereArgument ELSE <<>>,
     limit |-> IF q.limit > 0 THEN q.limit ELSE 0, order |-> "", offset |-> 0]

Select ==
    /\ Idle
    /\ q.table # ""
    /\ \E queryCol \in QueryCols(model), driver \in DriverKinds, outcome \in DbOutcomes :
        LET stmt == SelectStatement(queryCol)
            ids == ResultIds(dbRows, stmt)
            cols == ResultColumns(model, stmt)
            fieldCols == [i \in 1..Len(model.fields) |-> SelectColumn(model.fields[i])]
            r == MapRows(model, fieldCols, cols, ids, 1, driver,
                         IF outcome = "scan error" THEN Len(ids) ELSE 0, <<>>)
        IN  /\ queryLog' = <<stmt>>
            /\ IF outcome = "query error" \/ DbRejects(model, stmt)
               THEN /\ err' = DriverError
                    /\ destSlice' = <<>>
                    /\ ht' = <<>>
               ELSE /\ err' = r.err
                    /\ destSlice' = r.slice
                    /\ ht' = IF r.built THEN fieldCols ELSE <<>>
            \* the deferred rows.Close()
            /\ rowsOpen' = 0
    /\ op' = "Select"
    /\ UNCHANGED <<model, crudVars, coerceVars, q, builderCalls, dbRows, dest, destBefore,
                   total, totalPages, pageArgs>>

-----------------------------------------------------------------------------
(* Query.Paginate *)

\* the division without the rounding up
CeilTruncates(a, b) == a \div b

\* int(math.Ceil(float64(a) / float64(b))) for a >= 0 and b > 0
Ceil(a, b) == IF a % b = 0 THEN a \div b ELSE a \div b + 1

CountStatement == [kind |-> "COUNT", table |-> q.table]

PaginateStatement(queryCol, page, pageSize) ==
    LET offset == (page - 1) * pageSize
    IN  [kind |-> "SELECT", cols |-> queryCol, table |-> q.table, where |-> "",
         args |-> <<IntV(pageSize), IntV(offset)>>,
         limit |-> pageSize, order |-> "id", offset |-> offset]

Paginate ==
    /\ Idle
    /\ q.table # ""
    /\ \E pageIn \in (-1)..MaxPage, pageSizeIn \in (-1)..MaxPageSize,
          queryCol \in QueryCols(model), driver \in DriverKinds,
          outcome \in DbOutcomes \cup {"count error"} :
        LET page == IF pageIn < 1 THEN 1 ELSE pageIn
            pageSize == IF pageSizeIn <= 0 THEN 1 ELSE pageSizeIn
            stmt == PaginateStatement(queryCol, page, pageSize)
            ids == ResultIds(dbRows, stmt)
            cols == ResultColumns(model, stmt)
            fieldCols == [i \in 1..Len(model.fields) |-> PaginateColumn(model.fields[i])]
            r == MapRows(model, fieldCols, cols, ids, 1, driver,
                         IF outcome = "scan error" THEN Len(ids) ELSE 0, <<>>)
        IN  /\ pageArgs' = [page |-> pageIn, pageSize |-> pageSizeIn]
            /\ IF outcome = "count error"
               THEN /\ queryLog' = <<CountStatement>>
                    /\ err' = DriverError
                    /\ UNCHANGED <<total, totalPages>>
                    /\ destSlice' = <<>>
                    /\ ht' = <<>>
               ELSE /\ queryLog' = <<CountStatement, stmt>>
                    /\ total' = dbRows
                    /\ totalPages' = Ceil(dbRows, pageSize)
                    /\ IF outcome = "query error" \/ DbRejects(model, stmt)
                       THEN /\ err' = DriverError
                            /\ destSlice' = <<>>
                            /\ ht' = <<>>
                       ELSE /\ err' = r.err
                            /\ destSlice' = r.slice
                            /\ ht' = IF r.built THEN fieldCols ELSE <<>>
    \* the deferred rows.Close()
    /\ rowsOpen' = 0
    /\ op' = "Paginate"
    /\ UNCHANGED <<model, crudVars, coerceVars, q, builderCalls, dbRows, dest, destBefore>>

-----------------------------------------------------------------------------

NoValue == [k |-> "nil", v |-> 0]

\* no Query has been made
NoQuery == [table |-> "", where |-> "", whereArgument |-> <<>>, limit |-> 0]

QueryIdle ==
    /\ q = NoQuery
    /\ builderCalls = NoCalls
    /\ dbRows = 0
    /\ queryLog = <<>>
    /\ rowsOpen = 0
    /\ dest = <<>>
    /\ destBefore = <<>>
    /\ destSlice = <<>>
    /\ total = 0
    /\ totalPages = 0
    /\ pageArgs = NoPage
    /\ ht = <<>>

\* the record type of the repository's example program
User ==
    [name |-> "User",
     fields |-> << [name |-> "ID", tag |-> <<"pk">>, val |-> [k |-> "int", v |-> 0]],
                   [name |-> "Name", tag |-> <<"column", ":", "name_user">>,
                    val |-> [k |-> "string", v |-> 0]],
                   [name |-> "Email", tag |-> <<"column", ":", "email_user">>,
                    val |-> [k |-> "string", v |-> 0]] >>]

Init ==
    /\ \E n \in 1..MaxFields :
         \E shapes \in [1..n -> TagShapes], vals \in [1..n -> 0..MaxVal] :
            model = Record(n, shapes, vals)
    /\ op = "none"
    /\ execLog = <<>>
    /\ err = "nil"
    /\ dstField = NoValue
    /\ fieldBefore = NoValue
    /\ value = NoValue
    /\ QueryIdle

InitCoerce ==
    /\ model = User
    /\ op = "none"
    /\ execLog = <<>>
    /\ err = "nil"
    /\ dstField \in Fields
    /\ fieldBefore = dstField
    /\ value \in Values
    /\ QueryIdle

NextCoerce == SetFieldValue

\* the record types the queries are made on: the example's, with each of the
\* recognized tags on its first field
QueryModels == { [User EXCEPT !.fields[1].tag = t] : t \in TagsOf("ID") }

InitQuery ==
    /\ model \in QueryModels
    /\ op = "none"
    /\ execLog = <<>>
    /\ err = "nil"
    /\ dstField = NoValue
    /\ fieldBefore = NoValue
    /\ value = NoValue
    /\ q = NoQuery
    /\ builderCalls = NoCalls
    /\ dbRows \in 0..MaxRows
    /\ queryLog = <<>>
    /\ rowsOpen = 0
    /\ dest = <<>>
    /\ destBefore = <<>>
    /\ destSlice = <<>>
    /\ total = 0
    /\ totalPages = 0
    /\ pageArgs = NoPage
    /\ ht = <<>>

\* the caller is done with the destinations of its terminal call; the Query
\* stays as it is
Discard ==
    /\ ~Idle
    /\ op' = "none"
    /\ err' = "nil"
    /\ queryLog' = <<>>
    /\ rowsOpen' = 0
    /\ NoResults
    /\ UNCHANGED <<model, crudVars, coerceVars, q, builderCalls, dbRows>>

NextQuery == From \/ Where \/ Limit \/ First \/ Select \/ Paginate \/ Discard

SpecQuery == InitQuery /\ [][NextQuery]_vars

SpecCoerce == InitCoerce /\ [][NextCoerce]_vars

NextCrud == Insert \/ Update \/ Delete

SpecCrud == Init /\ [][NextCrud]_vars

-----------------------------------------------------------------------------
(* Claims on Insert, Update and Delete *)

\* C1: for a record type with exactly one primary-key field and N other
\* fields, Insert passes exactly one statement to the database; it has N
\* columns, N placeholders and N arguments, and its k-th column and k-th
\* argument are the column and the value of the k-th non-key field in
\* declaration order.
C1_InsertColumnsAndArguments ==
    (op = "Insert" /\ Len(KeyFields(model)) = 1) =>
        /\ Len(execLog) = 1
        /\ LET s == execLog[1]
               nk == NonKeyFields(model)
           IN  /\ s.kind = "INSERT"
               /\ Len(s.columns) = Len(nk)
               /\ Len(s.placeholders) = Len(nk)
               /\ Len(s.args) = Len(nk)
               /\ \A k \in 1..Len(nk) :
                    /\ s.columns[k] = DesignColumn(nk[k])
                    /\ s.args[k] = nk[k].val

\* C1 witness: Insert has run on a record whose primary key is declared
\* after two other fields, one of them holding a non-zero value.
C1_Witness ==
    /\ op = "Insert"
    /\ Len(model.fields) = 3
    /\ Len(KeyFields(model)) = 1
    /\ IsKey(model.fields[3])
    /\ model.fields[1].val # model.fields[2].val
    /\ Len(execLog) = 1
    /\ Len(execLog[1].columns) = 2

\* C2: the placeholders of Insert's statement are positional and 1-indexed:
\* with exactly one primary-key field and N >= 1 other fields, every
\* placeholder $k has 1 <= k <= N, none is repeated, and the k-th column's
\* placeholder addresses the k-th argument.
C2_InsertPlaceholdersOneIndexed ==
    (op = "Insert" /\ Len(KeyFields(model)) = 1 /\ Len(NonKeyFields(model)) >= 1) =>
        LET s == execLog[1]
        IN  /\ \A k \in 1..Len(s.placeholders) :
                 /\ s.placeholders[k] \in 1..Len(s.args)
                 /\ s.placeholders[k] = k
            /\ Distinct(s.placeholders)

\* C3: for a record with a primary-key field, Update's SET clause holds one
\* fragment for exactly the non-key fields whose value is not zero, in
\* declaration order; its arguments are those values followed by the
\* primary-key value; with every non-key field zero the SET clause is empty,
\* the only argument is the primary-key value, and the statement is still
\* passed to the database.
C3_UpdateSetClause ==
    (op = "Update" /\ Len(KeyFields(model)) >= 1) =>
        /\ Len(execLog) = 1
        /\ err \in ExecResults
        /\ LET s == execLog[1]
               sf == SetFields(model)
               kf == KeyFields(model)
           IN  /\ s.kind = "UPDATE"
               /\ Len(s.set) = Len(sf)
               /\ \A k \in 1..Len(sf) :
                    /\ s.set[k].col = DesignColumn(sf[k])
                    /\ s.args[k] = sf[k].val
               /\ Len(s.args) = Len(sf) + 1
               /\ s.args[Len(s.args)] = kf[Len(kf)].val
               /\ (sf = <<>>) => (s.set = <<>> /\ s.args = <<kf[Len(kf)].val>>)

\* C3 witness: Update has run on a record with a primary key and two other
\* fields that both hold the zero value, and the statement went out with an
\* empty SET clause.
C3_Witness ==
    /\ op = "Update"
    /\ Len(KeyFields(model)) = 1
    /\ Len(NonKeyFields(model)) = 2
    /\ SetFields(model) = <<>>
    /\ Len(execLog) = 1
    /\ execLog[1].set = <<>>

\* C4: Update on a record without a primary-key field returns an error and
\* passes no statement to the database, whatever the other fields hold.
C4_UpdateWithoutKeyFails ==
    (op = "Update" /\ KeyFields(model) = <<>>) =>
        /\ err = NoPrimaryKey
        /\ execLog = <<>>

\* C4 witness: Update has run on a record without a primary key of which one
\* field is zero and another is not.
C4_Witness ==
    /\ op = "Update"
    /\ KeyFields(model) = <<>>
    /\ \E i, j \in 1..Len(model.fields) :
         model.fields[i].val = IntV(0) /\ model.fields[j].val # IntV(0)
    /\ err = NoPrimaryKey

\* C5: Delete on a record without a primary-key field returns a
\* statement-construction error and passes no statement to the database.
C5_DeleteWithoutKeyFails ==
    (op = "Delete" /\ KeyFields(model) = <<>>) =>
        /\ err \notin ExecResults
        /\ execLog = <<>>

\* C11: in Update's statement every placeholder addresses the argument it
\* was written for: with one primary-key field at any position and any
\* non-key fields zero, the index of the k-th SET fragment is the position
\* of its field's value in the arguments, the index of the WHERE clause is
\* that of the primary-key value (the last argument), and the indices are
\* distinct and lie in 1..Len(arguments).
C11_UpdatePlaceholders ==
    (op = "Update" /\ Len(KeyFields(model)) = 1 /\ Len(execLog) = 1) =>
        LET s == execLog[1]
            indices == [k \in 1..Len(s.set) |-> s.set[k].n] \o <<s.pkParam>>
        IN  /\ \A k \in 1..Len(s.set) :
                 /\ s.set[k].n \in 1..Len(s.args)
                 /\ s.args[s.set[k].n] = SetFields(model)[k].val
                 /\ s.set[k].n = k
            /\ s.pkParam = Len(s.args)
            /\ s.args[s.pkParam] = KeyFields(model)[1].val
            /\ Distinct(indices)

-----------------------------------------------------------------------------
(* Claims on the coercion engine *)

\* the pairs (target kind, source kind) the design declares accepted
DeclaredAccepted(target, source) ==
    \/ source = "nil"
    \/ source = target
    \/ target \in IntKinds \cup UintKinds
         /\ source \in {"int64", "int32", "int", "float64", "float32"}
    \/ target \in FloatKinds
         /\ source \in {"float64", "float32", "int64", "int32", "int"}
    \/ target = "string" /\ source \in {"string", "bytes"}
    \/ target = "bool" /\ source \in {"bool", "int64"}

\* C9: the coercion engine accepts exactly the declared pairs of target and
\* source kind: a null source leaves the field untouched without error, an
\* assignable source is assigned, integer and unsigned targets take int64,
\* int32, int and floating-point sources, floating-point targets take every
\* floating-point and every integer source (an int32 n becoming the float
\* n), string targets take strings and byte sequences, boolean targets take
\* bool and int64; every other pair returns an error and leaves the field
\* unchanged.
C9_CoercionMatrix ==
    op = "setFieldValue" =>
        /\ (err = "nil") <=> DeclaredAccepted(fieldBefore.k, value.k)
        /\ (err # "nil" \/ value.k = "nil") => dstField = fieldBefore
        /\ (fieldBefore.k \in FloatKinds /\ value.k = "int32") =>
                dstField = [k |-> fieldBefore.k, v |-> 2 * value.v]

-----------------------------------------------------------------------------
(* Claims on the queries *)

Terminal == {"First", "Select", "Paginate"}

\* the statement of the held call that fetched rows, the last one it logged
FetchStatement == queryLog[Len(queryLog)]

\* C6: First on a result set of zero rows returns no error and leaves every
\* field of the destination as it was, whatever the WHERE clause, the column
\* list and the destination's contents.
C6_FirstZeroRows ==
    (/\ op = "First"
     /\ err # DriverError
     /\ ResultIds(dbRows, FetchStatement) = <<>>) =>
        /\ err = "nil"
        /\ dest = destBefore

\* C6 witness: First has returned from a query with a WHERE clause and a
\* column list that matched no row of a table that has rows, on a
\* destination whose fields held values.
C6_Witness ==
    /\ op = "First"
    /\ err = "nil"
    /\ dbRows >= 1
    /\ q.where # ""
    /\ FetchStatement.cols # <<>>
    /\ ResultIds(dbRows, FetchStatement) = <<>>
    /\ destBefore # ZeroStruct(model)
    /\ dest = destBefore

ClampedPage == IF pageArgs.page >= 1 THEN pageArgs.page ELSE 1
ClampedSize == IF pageArgs.pageSize > 0 THEN pageArgs.pageSize ELSE 1

Min(a, b) == IF a < b THEN a ELSE b

\* C7: with p = max(page, 1) and s = pageSize if pageSize > 0 else 1,
\* Paginate writes the table's row count to total and the least number of
\* pages of s rows that hold them to totalPages, fetches with LIMIT s and
\* OFFSET (p - 1) * s ordered by id, and so returns the rows
\* (p - 1) * s + 1 .. min(p * s, total), none when p > totalPages.
C7_Paginate ==
    (op = "Paginate" /\ Len(queryLog) = 2) =>
        LET p == ClampedPage
            s == ClampedSize
            stmt == queryLog[2]
            last == Min(p * s, total)
        IN  /\ total = dbRows
            /\ totalPages * s >= total
            /\ (totalPages - 1) * s < total
            /\ totalPages >= 0
            /\ stmt.limit = s
            /\ stmt.offset = (p - 1) * s
            /\ stmt.args = <<IntV(s), IntV((p - 1) * s)>>
            /\ stmt.order = "id"
            /\ err = "nil" =>
                /\ Len(destSlice) = (IF last > (p - 1) * s THEN last - (p - 1) * s ELSE 0)
                /\ \A k \in 1..Len(destSlice) :
                     destSlice[k][1] = IntV((p - 1) * s + k)
                /\ p > totalPages => destSlice = <<>>

\* C7 witness: Paginate has returned page 3 of a table of 7 rows with 3
\* rows a page: 3 pages in all, and row 7 alone in the destination.
C7_Witness ==
    /\ op = "Paginate"
    /\ err = "nil"
    /\ dbRows = 7
    /\ pageArgs = [page |-> 3, pageSize |-> 3]
    /\ total = 7
    /\ totalPages = 3
    /\ Len(destSlice) = 1
    /\ destSlice[1][1] = IntV(7)

\* C8: every terminal operation uses the filter of the Query: when the
\* Query holds a non-empty WHERE clause, the statement with which Select,
\* First or Paginate fetches rows holds that clause and is run with the
\* clause's arguments, so that only matching rows reach the destination.
C8_TerminalsUseFilter ==
    (op \in Terminal /\ q.where # "" /\ FetchStatement.kind = "SELECT") =>
        /\ FetchStatement.where = q.where
        /\ FetchStatement.args = q.whereArgument
        /\ \A k \in 1..Len(destSlice) :
             Matches(destSlice[k][1].v, q.where, q.whereArgument)

\* C10: every operation resolves a field's column alike: the name of the
\* column directive when the tag has one, the lower-cased field name when
\* not, for each tag built from the recognized directives; so the map of
\* Select, of First and of Paginate sends each field to that one column,
\* which for a non-key field is the column Insert and Update write.
C10_OneColumnResolution ==
    (op \in Terminal /\ ht # <<>>) =>
        \A i \in 1..Len(model.fields) :
            /\ ht[i] = DesignColumn(model.fields[i])
            /\ IsNonKey(model.fields[i]) => ht[i] = WriteColumn(model.fields[i])

\* C12: a result set that Select, First or Paginate opened is closed when
\* the operation returns, on each way out after a query that succeeded: the
\* end of the rows, a Scan that fails, a field that cannot be set.  No
\* terminal operation returns with its result set open.
C12_ResultSetsClosed ==
    op \in Terminal => rowsOpen = 0

\* the statements the Query as it now is would issue for the held call's
\* operation, column list and page arguments
Reissued ==
    LET cols == FetchStatement.cols
    IN  IF op = "First" THEN <<FirstStatement(cols)>>
        ELSE IF op = "Select" THEN <<SelectStatement(cols)>>
        ELSE IF Len(queryLog) = 1 THEN <<CountStatement>>
        ELSE <<CountStatement, PaginateStatement(cols, ClampedPage, ClampedSize)>>

\* C13: the Query changes only through its builder methods.  After any
\* sequence of Where, Limit, Select, First and Paginate calls on one Query
\* its table is the one From bound, its WHERE clause and arguments are
\* those of the most recent Where call (empty if there was none), which
\* replace and do not combine with the earlier ones, and its limit is that
\* of the most recent Limit call (0 if there was none).  A terminal call,
\* whether it succeeds or fails, leaves the four as they were, so a repeat
\* of it issues the statements it issued, with the same arguments.
C13_QueryFrame ==
    /\ q.table # "" =>
         /\ q.table = TableName(model)
         /\ q.where = builderCalls.condition
         /\ q.whereArgument = builderCalls.args
         /\ q.limit = builderCalls.n
    /\ q.table = "" => (q = NoQuery /\ builderCalls = NoCalls)
    /\ op \in Terminal => queryLog = Reissued

\* a Select that failed, on a Query whose second Where and Limit the caller
\* had set
C13_Witness ==
    /\ op = "Select"
    /\ err = DriverError
    /\ builderCalls = [condition |-> "id > $1", args |-> <<IntV(1)>>, n |-> MaxLimit]
    /\ q.where = "id > $1"
    /\ q.limit = MaxLimit
    /\ queryLog = <<SelectStatement(<<>>)>>

====
